---------------------------- MODULE Spec2Model ----------------------------
(***************************************************************************)
(* The type-checking pass of xshade (src/type_system/type_check.rs): one   *)
(* module is checked against a symbol table and a type environment, in the *)
(* fixed order primitives, structs, casts, constants, functions.  The AST  *)
(* is annotated in place; every try! is an early return of the error.      *)
(***************************************************************************)
EXTENDS Integers, Sequences, FiniteSets, TLC

VARIABLES
    pc,               \* where type_check stands: idle, a phase, block, done
    module,           \* the module being checked, annotated in place
    symbol_table,     \* SymbolTable: the stack of scopes
    type_environment, \* TypeEnvironment: the type entries, by TypeReference
    result,           \* what type_check returned (kind Running until then)
    depth0,           \* the scope depth when type_check was called
    fi,               \* check_functions: index of the function being checked
    si                \* check_block: index of the statement being checked

vars == <<pc, module, symbol_table, type_environment, result, depth0, fi, si>>

-----------------------------------------------------------------------------
(* Values *)

\* Option::None of a resolved-type slot (Option<TypeReference>).
None == -1
\* No symbol of that name in a scope (find_symbol's None).
Absent == -2

AllNames == {"f32", "i32", "T", "A", "B", "c", "f", "g", "x", "y", "l"}

Err(kind, a, b) == [kind |-> kind, a |-> a, b |-> b]
Ok == Err("Ok", "", "")
Running == Err("Running", "", "")

-----------------------------------------------------------------------------
(* TypeEnvironment: a type entry per TypeReference r, at index r + 1 *)

TypeEntry(name) == [name |-> name, implicit_casts |-> {}, explicit_casts |-> {}]

\* create_type: a fresh reference and an entry without casts.
create_type(env, name) ==
    [env |-> Append(env, TypeEntry(name)), reference |-> Len(env)]

\* find_type_mut: the entry of a reference, if there is one.
find_type_mut(env, reference) ==
    reference >= 0 /\ reference < Len(env)

does_cast_exist(env, source, target) ==
    \/ target \in env[source + 1].implicit_casts
    \/ target \in env[source + 1].explicit_casts

add_implicit_cast(env, source, target) ==
    [env EXCEPT ![source + 1].implicit_casts = @ \cup {target}]

add_explicit_cast(env, source, target) ==
    [env EXCEPT ![source + 1].explicit_casts = @ \cup {target}]

-----------------------------------------------------------------------------
(* SymbolTable: a stack of scopes, the first one the global scope.  A scope *)
(* keeps the type names and the value names apart.                          *)

EmptyScope == [types |-> [n \in AllNames |-> None],
               symbols |-> [n \in AllNames |-> Absent]]

enter_scope(tab) == Append(tab, EmptyScope)

leave_scope(tab) == SubSeq(tab, 1, Len(tab) - 1)

\* The innermost scope (highest index) among the scopes S, 0 if S is empty.
Innermost(S) == IF S = {} THEN 0 ELSE CHOOSE i \in S : \A j \in S : j <= i

ScopesWithSymbol(tab, name) ==
    {i \in 1..Len(tab) : tab[i].symbols[name] # Absent}

ScopesWithType(tab, name) ==
    {i \in 1..Len(tab) : tab[i].types[name] # None}

add_symbol_with_type(tab, name, type_ref) ==
    IF tab[Len(tab)].symbols[name] # Absent
    THEN [err |-> Err("SymbolAlreadyDeclared", name, ""), tab |-> tab]
    ELSE [err |-> Ok,
          tab |-> [tab EXCEPT ![Len(tab)].symbols[name] = type_ref]]

add_symbol(tab, name) == add_symbol_with_type(tab, name, None)

AddTypeAt(tab, i, name, reference) ==
    IF tab[i].types[name] # None
    THEN [err |-> Err("TypeAlreadyDeclared", name, ""), tab |-> tab]
    ELSE [err |-> Ok, tab |-> [tab EXCEPT ![i].types[name] = reference]]

add_type(tab, name, reference) == AddTypeAt(tab, Len(tab), name, reference)

add_global_type(tab, name, reference) == AddTypeAt(tab, 1, name, reference)

find_symbol(tab, name) ==
    LET i == Innermost(ScopesWithSymbol(tab, name))
    IN  IF i = 0 THEN Absent ELSE tab[i].symbols[name]

resolve_symbol_type(tab, name, type_ref) ==
    LET i == Innermost(ScopesWithSymbol(tab, name))
    IN  IF i = 0
        THEN [err |-> Err("SymbolNotFound", name, ""), tab |-> tab]
        ELSE [err |-> Ok, tab |-> [tab EXCEPT ![i].symbols[name] = type_ref]]

find_type_or_err(tab, name) ==
    LET i == Innermost(ScopesWithType(tab, name))
    IN  IF i = 0
        THEN [err |-> Err("TypeNotFound", name, ""), reference |-> None]
        ELSE [err |-> Ok, reference |-> tab[i].types[name]]

-----------------------------------------------------------------------------
(* check_primitives *)

\* One iteration of the loop over the primitives (lines 23-25).
PrimitiveStep(st, i) ==
    LET p == st.decls[i]
        c == create_type(st.env, p.type_name)
        a == add_global_type(st.tab, p.type_name, c.reference)
    IN  IF a.err # Ok
        THEN [st EXCEPT !.env = c.env, !.err = a.err]
        ELSE [st EXCEPT !.env = c.env, !.tab = a.tab,
                        !.decls[i].declaring_type = c.reference]

\* The loop of line 22: the primitives from i on, until the first error.
RECURSIVE PrimitiveLoop(_, _)
PrimitiveLoop(st, i) ==
    IF i > Len(st.decls) \/ st.err # Ok THEN st
    ELSE PrimitiveLoop(PrimitiveStep(st, i), i + 1)

check_primitives(is_core_module, env, tab, primitives) ==
    LET st == [env |-> env, tab |-> tab, decls |-> primitives, err |-> Ok]
    IN  IF ~is_core_module /\ Len(primitives) > 0
        THEN [st EXCEPT !.err = Err("SyntaxOnlyValidInCoreModule", "", "")]
        ELSE PrimitiveLoop(st, 1)

-----------------------------------------------------------------------------
(* check_structs *)

\* One iteration of the first loop (lines 32-35): the struct's value symbol,
\* its type, and the type's name in the current scope.
StructDeclareStep(st, i) ==
    LET s == st.decls[i]
        a == add_symbol(st.tab, s.struct_name)
        c == create_type(st.env, s.struct_name)
        t == add_type(a.tab, s.struct_name, c.reference)
    IN  IF a.err # Ok THEN [st EXCEPT !.err = a.err]
        ELSE IF t.err # Ok
        THEN [st EXCEPT !.env = c.env, !.tab = a.tab, !.err = t.err]
        ELSE [st EXCEPT !.env = c.env, !.tab = t.tab,
                        !.decls[i].declaring_type = c.reference]

RECURSIVE StructDeclareLoop(_, _)
StructDeclareLoop(st, i) ==
    IF i > Len(st.decls) \/ st.err # Ok THEN st
    ELSE StructDeclareLoop(StructDeclareStep(st, i), i + 1)

\* Faulty variant: a member whose type name does not resolve is skipped.
StructMemberStepLenient(st, i, j) ==
    LET member == st.decls[i].struct_member[j]
        f == find_type_or_err(st.tab, member.struct_member_type_name)
    IN  [st EXCEPT
            !.decls[i].struct_member[j].struct_member_type = f.reference]

\* One iteration of the inner loop (lines 40-41): member j of struct i.
StructMemberStep(st, i, j) ==
    LET member == st.decls[i].struct_member[j]
        f == find_type_or_err(st.tab, member.struct_member_type_name)
    IN  IF f.err # Ok THEN [st EXCEPT !.err = f.err]
        ELSE [st EXCEPT
                !.decls[i].struct_member[j].struct_member_type = f.reference]

\* The loops of lines 38-43, from member j of struct i on.
RECURSIVE StructMemberLoop(_, _, _)
StructMemberLoop(st, i, j) ==
    IF i > Len(st.decls) \/ st.err # Ok THEN st
    ELSE IF j > Len(st.decls[i].struct_member)
    THEN StructMemberLoop(st, i + 1, 1)
    ELSE StructMemberLoop(StructMemberStep(st, i, j), i, j + 1)

\* Faulty variant: one pass, each struct's members resolved right after its name is
\* declared.
RECURSIVE StructSinglePassLoop(_, _)
StructSinglePassLoop(st, i) ==
    IF i > Len(st.decls) \/ st.err # Ok THEN st
    ELSE LET d == StructDeclareStep(st, i)
             one == StructMemberLoop([d EXCEPT !.decls = <<d.decls[i]>>], 1, 1)
         IN  StructSinglePassLoop(
                 [one EXCEPT !.decls = [d.decls EXCEPT ![i] = one.decls[1]]],
                 i + 1)

check_structs_single_pass(env, tab, structs) ==
    StructSinglePassLoop(
        [env |-> env, tab |-> tab, decls |-> structs, err |-> Ok], 1)

check_structs(env, tab, structs) ==
    LET st == [env |-> env, tab |-> tab, decls |-> structs, err |-> Ok]
    IN  StructMemberLoop(StructDeclareLoop(st, 1), 1, 1)

-----------------------------------------------------------------------------
(* check_casts *)

\* Faulty variant: only a cast of the same kind counts as already declared.
CastStepSameKind(st, i) ==
    LET c == st.decls[i]
        s == find_type_or_err(st.tab, c.source_type)
        t == find_type_or_err(st.tab, c.target_type)
        entry == st.env[s.reference + 1]
    IN  IF s.err # Ok THEN [st EXCEPT !.err = s.err]
        ELSE IF t.err # Ok THEN [st EXCEPT !.err = t.err]
        ELSE IF ~find_type_mut(st.env, s.reference)
        THEN [st EXCEPT !.err = Err("TypeNotFound", c.source_type, "")]
        ELSE IF c.cast_type = "Implicit"
        THEN IF t.reference \in entry.implicit_casts
             THEN [st EXCEPT !.err =
                     Err("CastAlreadyDeclared", c.source_type, c.target_type)]
             ELSE [st EXCEPT
                     !.env = add_implicit_cast(st.env, s.reference, t.reference)]
        ELSE IF t.reference \in entry.explicit_casts
             THEN [st EXCEPT !.err =
                     Err("CastAlreadyDeclared", c.source_type, c.target_type)]
             ELSE [st EXCEPT
                     !.env = add_explicit_cast(st.env, s.reference, t.reference)]

\* One iteration of the loop (lines 53-68).
CastStep(st, i) ==
    LET c == st.decls[i]
        s == find_type_or_err(st.tab, c.source_type)
        t == find_type_or_err(st.tab, c.target_type)
    IN  IF s.err # Ok THEN [st EXCEPT !.err = s.err]
        ELSE IF t.err # Ok THEN [st EXCEPT !.err = t.err]
        ELSE IF ~find_type_mut(st.env, s.reference)
        THEN [st EXCEPT !.err = Err("TypeNotFound", c.source_type, "")]
        ELSE IF does_cast_exist(st.env, s.reference, t.reference)
        THEN [st EXCEPT !.err =
                Err("CastAlreadyDeclared", c.source_type, c.target_type)]
        ELSE IF c.cast_type = "Implicit"
        THEN [st EXCEPT
                !.env = add_implicit_cast(st.env, s.reference, t.reference)]
        ELSE [st EXCEPT
                !.env = add_explicit_cast(st.env, s.reference, t.reference)]

RECURSIVE CastLoop(_, _)
CastLoop(st, i) ==
    IF i > Len(st.decls) \/ st.err # Ok THEN st
    ELSE CastLoop(CastStep(st, i), i + 1)

\* Faulty variant: the casts are checked in any module.
check_casts_anywhere(is_core_module, env, tab, casts) ==
    CastLoop([env |-> env, tab |-> tab, decls |-> casts, err |-> Ok], 1)

check_casts(is_core_module, env, tab, casts) ==
    LET st == [env |-> env, tab |-> tab, decls |-> casts, err |-> Ok]
    IN  IF ~is_core_module /\ Len(casts) > 0
        THEN [st EXCEPT !.err = Err("SyntaxOnlyValidInCoreModule", "", "")]
        ELSE CastLoop(st, 1)

-----------------------------------------------------------------------------
(* check_constant *)

\* One iteration of the loop (lines 75-80).
ConstantStep(st, i) ==
    LET s == st.decls[i]
        a == add_symbol(st.tab, s.constant_name)
        f == find_type_or_err(a.tab, s.constant_type_name)
        r == resolve_symbol_type(a.tab, s.constant_name, f.reference)
    IN  IF a.err # Ok THEN [st EXCEPT !.err = a.err]
        ELSE IF f.err # Ok THEN [st EXCEPT !.tab = a.tab, !.err = f.err]
        ELSE IF r.err # Ok
        THEN [st EXCEPT !.tab = a.tab, !.err = r.err,
                        !.decls[i].constant_type = f.reference]
        ELSE [st EXCEPT !.tab = r.tab,
                        !.decls[i].constant_type = f.reference]

RECURSIVE ConstantLoop(_, _)
ConstantLoop(st, i) ==
    IF i > Len(st.decls) \/ st.err # Ok THEN st
    ELSE ConstantLoop(ConstantStep(st, i), i + 1)

check_constant(tab, constants) ==
    LET st == [tab |-> tab, decls |-> constants, err |-> Ok]
    IN  ConstantLoop(st, 1)

-----------------------------------------------------------------------------
(* Expressions.  An expression is a record: kind, name (the literal's kind, *)
(* the variable's name, the struct's type name), ty (its resolved type),    *)
(* sub (the operands, or the initializers' expressions) and fty (the        *)
(* initializers' struct_field_type).                                        *)

check_literal_expression(tab, e) ==
    LET f == find_type_or_err(tab, IF e.name = "Float" THEN "f32" ELSE "i32")
    IN  IF f.err # Ok THEN [err |-> f.err, ty |-> None, e |-> e]
        ELSE [err |-> Ok, ty |-> f.reference,
              e |-> [e EXCEPT !.ty = f.reference]]

\* Faulty variant: a symbol without a resolved type counts as not found.
check_variable_expression_typed_only(tab, e) ==
    LET t == find_symbol(tab, e.name)
    IN  IF t = Absent \/ t = None
        THEN [err |-> Err("VariableNotFound", e.name, ""), ty |-> None, e |-> e]
        ELSE [err |-> Ok, ty |-> t, e |-> [e EXCEPT !.ty = t]]

check_variable_expression(tab, e) ==
    LET t == find_symbol(tab, e.name)
    IN  IF t = Absent
        THEN [err |-> Err("VariableNotFound", e.name, ""), ty |-> None, e |-> e]
        ELSE IF t = None
        THEN [err |-> Err("CannotInfer", e.name, ""), ty |-> None, e |-> e]
        ELSE [err |-> Ok, ty |-> t, e |-> [e EXCEPT !.ty = t]]

RECURSIVE check_expression(_, _)

check_infix_expression(tab, e) ==
    LET l == check_expression(tab, e.sub[1])
        el == [e EXCEPT !.sub[1] = l.e]
        r == check_expression(tab, e.sub[2])
        er == [el EXCEPT !.sub[2] = r.e]
    IN  IF l.err # Ok THEN [err |-> l.err, ty |-> None, e |-> el]
        ELSE IF r.err # Ok THEN [err |-> r.err, ty |-> None, e |-> er]
        ELSE [err |-> Ok, ty |-> l.ty, e |-> [er EXCEPT !.ty = l.ty]]

\* The loop of lines 141-145, from initializer i on; st is [err, e].
RECURSIVE InitializerLoop(_, _, _)
InitializerLoop(tab, st, i) ==
    IF i > Len(st.e.sub) \/ st.err # Ok THEN st
    ELSE LET r == check_expression(tab, st.e.sub[i])
             e1 == [st.e EXCEPT !.sub[i] = r.e]
         IN  IF r.err # Ok THEN [err |-> r.err, e |-> e1]
             ELSE InitializerLoop(tab,
                     [err |-> Ok, e |-> [e1 EXCEPT !.fty[i] = r.ty]], i + 1)

check_struct_instatiation_expression(tab, e) ==
    LET f == find_type_or_err(tab, e.name)
        st == InitializerLoop(tab,
                 [err |-> Ok, e |-> [e EXCEPT !.ty = f.reference]], 1)
    IN  IF f.err # Ok THEN [err |-> f.err, ty |-> None, e |-> e]
        ELSE IF st.err # Ok THEN [err |-> st.err, ty |-> None, e |-> st.e]
        ELSE [err |-> Ok, ty |-> f.reference, e |-> st.e]

check_expression(tab, e) ==
    CASE e.kind = "Literal" -> check_literal_expression(tab, e)
      [] e.kind = "Variable" -> check_variable_expression(tab, e)
      [] e.kind = "Infix" -> check_infix_expression(tab, e)
      [] e.kind = "StructInstantiation" ->
            check_struct_instatiation_expression(tab, e)
      [] OTHER -> [err |-> Ok, ty |-> 0, e |-> e]

-----------------------------------------------------------------------------
(* check_block and check_functions, a step at a time *)

\* One iteration of check_block's loop (lines 108-121): a statement's
\* expression, its resolved type, and for a local its symbol.
check_statement(tab, s) ==
    LET r == check_expression(tab, s.expression)
        s1 == [s EXCEPT !.expression = r.e]
        a == add_symbol_with_type(tab, s.symbol_name, r.ty)
    IN  IF r.err # Ok THEN [err |-> r.err, tab |-> tab, s |-> s1]
        ELSE IF s.kind = "Local"
        THEN [err |-> a.err, tab |-> a.tab, s |-> [s1 EXCEPT !.ty = r.ty]]
        ELSE IF s.kind = "Return"
        THEN [err |-> Ok, tab |-> tab, s |-> [s1 EXCEPT !.ty = r.ty]]
        ELSE [err |-> Ok, tab |-> tab, s |-> s1]

\* One iteration of the loop over the arguments (lines 91-93); st is
\* [err, tab, f].
ArgumentStep(st, i) ==
    LET argument == st.f.arguments[i]
        t == find_type_or_err(st.tab, argument.argument_type_name)
        f1 == [st.f EXCEPT !.arguments[i].argument_type = t.reference]
        a == add_symbol_with_type(st.tab, argument.argument_name, t.reference)
    IN  IF t.err # Ok THEN [st EXCEPT !.err = t.err]
        ELSE [err |-> a.err, tab |-> a.tab, f |-> f1]

RECURSIVE ArgumentLoop(_, _)
ArgumentLoop(st, i) ==
    IF i > Len(st.f.arguments) \/ st.err # Ok THEN st
    ELSE ArgumentLoop(ArgumentStep(st, i), i + 1)

\* Faulty variant: the function's scope is not entered; its arguments are bound in
\* the scope the function itself is bound in.
check_function_head_unscoped(env, tab, f) ==
    LET c == create_type(env, f.function_name)
        a == add_symbol_with_type(tab, f.function_name, c.reference)
        st == ArgumentLoop([err |-> Ok, tab |-> a.tab, f |-> f], 1)
        t == find_type_or_err(st.tab, f.return_type_name)
    IN  IF a.err # Ok
        THEN [err |-> a.err, env |-> c.env, tab |-> tab, f |-> f]
        ELSE IF st.err # Ok
        THEN [err |-> st.err, env |-> c.env, tab |-> st.tab, f |-> st.f]
        ELSE IF t.err # Ok
        THEN [err |-> t.err, env |-> c.env, tab |-> st.tab, f |-> st.f]
        ELSE [err |-> Ok, env |-> c.env, tab |-> st.tab,
              f |-> [st.f EXCEPT !.return_type = t.reference]]

\* Faulty variant: the function's symbol is bound after its scope is entered.
check_function_head_inner(env, tab, f) ==
    LET c == create_type(env, f.function_name)
        a == add_symbol_with_type(enter_scope(tab), f.function_name,
                                  c.reference)
        st == ArgumentLoop([err |-> Ok, tab |-> a.tab, f |-> f], 1)
        t == find_type_or_err(st.tab, f.return_type_name)
    IN  IF a.err # Ok
        THEN [err |-> a.err, env |-> c.env, tab |-> tab, f |-> f]
        ELSE IF st.err # Ok
        THEN [err |-> st.err, env |-> c.env, tab |-> st.tab, f |-> st.f]
        ELSE IF t.err # Ok
        THEN [err |-> t.err, env |-> c.env, tab |-> st.tab, f |-> st.f]
        ELSE [err |-> Ok, env |-> c.env, tab |-> st.tab,
              f |-> [st.f EXCEPT !.return_type = t.reference]]

\* The head of check_functions' loop body (lines 87-97): the function's type
\* and symbol, its scope, its arguments and its return type.
check_function_head(env, tab, f) ==
    LET c == create_type(env, f.function_name)
        a == add_symbol_with_type(tab, f.function_name, c.reference)
        st == ArgumentLoop([err |-> Ok, tab |-> enter_scope(a.tab), f |-> f], 1)
        t == find_type_or_err(st.tab, f.return_type_name)
    IN  IF a.err # Ok
        THEN [err |-> a.err, env |-> c.env, tab |-> tab, f |-> f]
        ELSE IF st.err # Ok
        THEN [err |-> st.err, env |-> c.env, tab |-> st.tab, f |-> st.f]
        ELSE IF t.err # Ok
        THEN [err |-> t.err, env |-> c.env, tab |-> st.tab, f |-> st.f]
        ELSE [err |-> Ok, env |-> c.env, tab |-> st.tab,
              f |-> [st.f EXCEPT !.return_type = t.reference]]

-----------------------------------------------------------------------------
(* The AST as the parser hands it over: names only, every resolved slot None *)

PrimitiveDeclaration(n) == [type_name |-> n, declaring_type |-> None]

StructMember(t) == [struct_member_type_name |-> t, struct_member_type |-> None]

StructDefinition(n, members) ==
    [struct_name |-> n, declaring_type |-> None,
     struct_member |-> [i \in 1..Len(members) |-> StructMember(members[i])]]

CastDeclaration(kind, s, t) ==
    [cast_type |-> kind, source_type |-> s, target_type |-> t]

ConstantDefinition(n, t) ==
    [constant_name |-> n, constant_type_name |-> t, constant_type |-> None]

FunctionArgumentDeclaration(n, t) ==
    [argument_name |-> n, argument_type_name |-> t, argument_type |-> None]

FunctionDeclaration(n, arguments, t, block) ==
    [function_name |-> n, arguments |-> arguments, return_type_name |-> t,
     return_type |-> None, block |-> block]

Expression(kind, n, sub) ==
    [kind |-> kind, name |-> n, ty |-> None, sub |-> sub,
     fty |-> [i \in 1..Len(sub) |-> None]]

Literal(kind) == Expression("Literal", kind, <<>>)
Variable(n) == Expression("Variable", n, <<>>)
Infix(l, r) == Expression("Infix", "", <<l, r>>)
StructInstantiation(n, initializers) ==
    Expression("StructInstantiation", n, initializers)
Call == Expression("Call", "", <<>>)

Statement(kind, n, e) ==
    [kind |-> kind, symbol_name |-> n, ty |-> None, expression |-> e]

Local(n, e) == Statement("Local", n, e)
Return(e) == Statement("Return", "", e)
ExpressionStatement(e) == Statement("Expression", "", e)

Module(is_core, primitives, structs, casts, constants, functions) ==
    [is_core |-> is_core, primitives |-> primitives, structs |-> structs,
     casts |-> casts, constants |-> constants, functions |-> functions]

-----------------------------------------------------------------------------
(* The modules checked *)

\* The longest list of declarations of each kind.
MaxPrimitives == 1
MaxStructs == 2
MaxCasts == 3
MaxConstants == 2
MaxFunctions == 2

SeqsUpTo(S, n) == UNION {[1..k -> S] : k \in 0..n}

\* Primitives: T and A are declared by the module, f32 and i32 by the core
\* prelude.
PrimitiveLists ==
    SeqsUpTo({PrimitiveDeclaration("T"), PrimitiveDeclaration("A")},
             MaxPrimitives)

\* Structs A and B, their members naming a primitive, a struct or nothing
\* declared (B and T when the module declares none).
MemberLists == {<<"f32">>, <<"A">>, <<"B">>, <<"T">>, <<"f32", "B">>}

StructLists ==
    SeqsUpTo({StructDefinition(n, m) : n \in {"A", "B"}, m \in MemberLists},
             MaxStructs)

CastLists ==
    SeqsUpTo({CastDeclaration(k, s, t) : k \in {"Implicit", "Explicit"},
                                         s \in {"f32", "A"}, t \in {"f32", "A"}},
             MaxCasts)

ConstantLists ==
    SeqsUpTo({ConstantDefinition(n, t) : n \in {"c", "A"},
                                         t \in {"f32", "A", "B"}},
             MaxConstants)

ArgumentLists ==
    {<<FunctionArgumentDeclaration("x", "f32")>>,
     <<FunctionArgumentDeclaration("y", "A")>>,
     <<FunctionArgumentDeclaration("x", "B")>>,
     <<FunctionArgumentDeclaration("x", "f32"),
       FunctionArgumentDeclaration("x", "f32")>>}

Blocks ==
    {<<Return(Infix(Variable("x"), Variable("x")))>>,
     <<ExpressionStatement(Call), Return(Infix(Variable("x"), Variable("y")))>>,
     <<Local("l", Literal("Float")), Return(Variable("l"))>>,
     <<Local("x", Literal("Int")), ExpressionStatement(Variable("x"))>>,
     <<ExpressionStatement(Variable("f")), ExpressionStatement(Variable("g"))>>,
     <<Return(Variable("A"))>>,
     <<Return(Variable("c"))>>,
     <<Return(StructInstantiation("A", <<Variable("x")>>))>>}

\* Functions that differ in their name, arguments and return type.
SignatureFunctions ==
    {FunctionDeclaration(n, a, "f32", <<ExpressionStatement(Variable("x"))>>) :
        n \in {"f", "g", "A"}, a \in ArgumentLists}
    \cup {FunctionDeclaration(n, <<>>, "B", <<>>) : n \in {"f", "g"}}

\* Functions that differ in their name and body.
BodyFunctions ==
    {FunctionDeclaration(n, <<FunctionArgumentDeclaration("x", "f32")>>,
                         "f32", b) : n \in {"f", "g"}, b \in Blocks}

OneStruct == <<StructDefinition("A", <<"f32">>)>>
OneCast == <<CastDeclaration("Implicit", "f32", "A")>>
OneConstant == <<ConstantDefinition("c", "f32")>>
OneFunction ==
    <<FunctionDeclaration("f", <<>>, "f32", <<Return(Variable("c"))>>)>>

StructModules ==
    {Module(core, p, s, <<>>, <<>>, <<>>) :
        core \in BOOLEAN, p \in PrimitiveLists, s \in StructLists}

CastModules ==
    {Module(core, <<>>, s, c, <<>>, <<>>) :
        core \in BOOLEAN, c \in CastLists,
        s \in {OneStruct, <<StructDefinition("B", <<>>)>>}}

ConstantModules ==
    {Module(core, <<>>, s, c, k, f) :
        core \in BOOLEAN, s \in {<<>>, OneStruct}, c \in {<<>>, OneCast},
        k \in ConstantLists, f \in {<<>>, OneFunction}}

\* Modules that differ in their declarations other than functions.
DeclarationModules == StructModules \cup CastModules \cup ConstantModules

\* Modules that differ in their functions.
FunctionModules ==
    {Module(FALSE, <<>>, s, <<>>, OneConstant, f) :
        s \in {<<>>, OneStruct},
        f \in SeqsUpTo(SignatureFunctions, MaxFunctions)
              \cup SeqsUpTo(BodyFunctions, MaxFunctions)}

-----------------------------------------------------------------------------
(* type_check *)

\* Faulty variant: the error is recorded but the check goes on.
TryGoesOn(err, next) ==
    [pc |-> next, result |-> IF err # Ok THEN err ELSE Running]

\* try!: the error returned at once, or on to the next step.
Try(err, next) ==
    IF err # Ok THEN [pc |-> "done", result |-> err]
    ELSE [pc |-> next, result |-> Running]

\* The symbol table and the type environment as constructed, and then after
\* the core module declaring the primitives of prelude has been checked.
NewSymbolTable == <<EmptyScope>>

NewTypeEnvironment == <<>>

AfterCore(prelude) ==
    LET r == check_primitives(TRUE, NewTypeEnvironment,
                 enter_scope(NewSymbolTable),
                 [i \in 1..Len(prelude) |-> PrimitiveDeclaration(prelude[i])])
    IN  [env |-> r.env, tab |-> leave_scope(r.tab)]

Preludes == {<<>>, <<"f32", "i32">>}

Init ==
    /\ pc = "idle"
    /\ module = Module(FALSE, <<>>, <<>>, <<>>, <<>>, <<>>)
    /\ \E prelude \in Preludes :
          /\ symbol_table = AfterCore(prelude).tab
          /\ type_environment = AfterCore(prelude).env
    /\ result = Running
    /\ depth0 = 0
    /\ fi = 1
    /\ si = 1

\* Line 8: type_check is called on a module and enters the module's scope.
TypeCheckEnter(modules) ==
    /\ pc = "idle"
    /\ \E m \in modules : module' = m
    /\ depth0' = Len(symbol_table)
    /\ symbol_table' = enter_scope(symbol_table)
    /\ pc' = "primitives"
    /\ UNCHANGED <<type_environment, result, fi, si>>

\* Line 9.
CheckPrimitives ==
    /\ pc = "primitives"
    /\ LET r == check_primitives(module.is_core, type_environment,
                    symbol_table, module.primitives)
           t == Try(r.err, "structs")
       IN  /\ type_environment' = r.env
           /\ symbol_table' = r.tab
           /\ module' = [module EXCEPT !.primitives = r.decls]
           /\ pc' = t.pc
           /\ result' = t.result
    /\ UNCHANGED <<depth0, fi, si>>

\* Line 10.
CheckStructs ==
    /\ pc = "structs"
    /\ LET r == check_structs(type_environment, symbol_table, module.structs)
           t == Try(r.err, "casts")
       IN  /\ type_environment' = r.env
           /\ symbol_table' = r.tab
           /\ module' = [module EXCEPT !.structs = r.decls]
           /\ pc' = t.pc
           /\ result' = t.result
    /\ UNCHANGED <<depth0, fi, si>>

\* Line 11.
CheckCasts ==
    /\ pc = "casts"
    /\ LET r == check_casts(module.is_core, type_environment, symbol_table,
                    module.casts)
           t == Try(r.err, "constants")
       IN  /\ type_environment' = r.env
           /\ symbol_table' = r.tab
           /\ pc' = t.pc
           /\ result' = t.result
    /\ UNCHANGED <<module, depth0, fi, si>>

\* Line 12.
CheckConstant ==
    /\ pc = "constants"
    /\ LET r == check_constant(symbol_table, module.constants)
           t == Try(r.err, "functions")
       IN  /\ symbol_table' = r.tab
           /\ module' = [module EXCEPT !.constants = r.decls]
           /\ pc' = t.pc
           /\ result' = t.result
    /\ UNCHANGED <<type_environment, depth0, fi, si>>

\* Lines 86-99 and 106: the next function's head, then into its block.
CheckFunctionHead ==
    /\ pc = "functions"
    /\ fi <= Len(module.functions)
    /\ LET r == check_function_head(type_environment, symbol_table,
                    module.functions[fi])
           t == Try(r.err, "block")
       IN  /\ type_environment' = r.env
           /\ symbol_table' = IF r.err = Ok THEN enter_scope(r.tab) ELSE r.tab
           /\ module' = [module EXCEPT !.functions[fi] = r.f]
           /\ pc' = t.pc
           /\ result' = t.result
    /\ si' = 1
    /\ UNCHANGED <<depth0, fi>>

\* Lines 107-122: the next statement of the block.
CheckBlockStatement ==
    /\ pc = "block"
    /\ si <= Len(module.functions[fi].block)
    /\ LET r == check_statement(symbol_table, module.functions[fi].block[si])
           t == Try(r.err, "block")
       IN  /\ symbol_table' = r.tab
           /\ module' = [module EXCEPT !.functions[fi].block[si] = r.s]
           /\ pc' = t.pc
           /\ result' = t.result
    /\ si' = si + 1
    /\ UNCHANGED <<type_environment, depth0, fi>>

\* Lines 123-124 and 100: the block's scope and the function's scope are left.
CheckFunctionTail ==
    /\ pc = "block"
    /\ si > Len(module.functions[fi].block)
    /\ symbol_table' = leave_scope(leave_scope(symbol_table))
    /\ fi' = fi + 1
    /\ pc' = "functions"
    /\ UNCHANGED <<module, type_environment, result, depth0, si>>

\* Lines 102 and 14-15: no function is left; the module's scope is left.
TypeCheckLeave ==
    /\ pc = "functions"
    /\ fi > Len(module.functions)
    /\ symbol_table' = leave_scope(symbol_table)
    /\ result' = Ok
    /\ pc' = "done"
    /\ UNCHANGED <<module, type_environment, depth0, fi, si>>

\* type_check after it has been entered, a step at a time.
Steps ==
    \/ CheckPrimitives
    \/ CheckStructs
    \/ CheckCasts
    \/ CheckConstant
    \/ CheckFunctionHead
    \/ CheckBlockStatement
    \/ CheckFunctionTail
    \/ TypeCheckLeave

Next == TypeCheckEnter(DeclarationModules) \/ Steps

Spec == Init /\ [][Next]_vars

NextFunctions == TypeCheckEnter(FunctionModules) \/ Steps

SpecFunctions == Init /\ [][NextFunctions]_vars

-----------------------------------------------------------------------------
(* What the claims speak of *)

Failed == result # Ok /\ result # Running

StructNames(m) == {m.structs[i].struct_name : i \in 1..Len(m.structs)}

PrimitiveNames(m) == {m.primitives[i].type_name : i \in 1..Len(m.primitives)}

ConstantNames(m) == {m.constants[i].constant_name : i \in 1..Len(m.constants)}

\* The type names bound in the global scope: the registered primitives.
GlobalTypes(tab) == {n \in AllNames : tab[1].types[n] # None}

\* The struct members of a module, as <<struct, member>> indices.
Members(m) ==
    UNION {{<<i, j>> : j \in 1..Len(m.structs[i].struct_member)} :
              i \in 1..Len(m.structs)}

\* The cast edges of a type environment, as <<source, target, kind>>.
Edges(env) ==
    UNION {{<<s - 1, t, "Implicit">> : t \in env[s].implicit_casts}
           \cup {<<s - 1, t, "Explicit">> : t \in env[s].explicit_casts} :
              s \in 1..Len(env)}

\* The resolved slots of an expression, in the order check_expression
\* writes them.
RECURSIVE ExpressionSlots(_)
RECURSIVE InitializerSlots(_, _)
InitializerSlots(e, i) ==
    IF i > Len(e.sub) THEN <<>>
    ELSE ExpressionSlots(e.sub[i]) \o <<e.fty[i]>> \o InitializerSlots(e, i + 1)

ExpressionSlots(e) ==
    CASE e.kind \in {"Literal", "Variable"} -> <<e.ty>>
      [] e.kind = "Infix" ->
            ExpressionSlots(e.sub[1]) \o ExpressionSlots(e.sub[2]) \o <<e.ty>>
      [] e.kind = "StructInstantiation" -> <<e.ty>> \o InitializerSlots(e, 1)
      [] OTHER -> <<>>

StatementSlots(s) ==
    ExpressionSlots(s.expression)
    \o (IF s.kind = "Expression" THEN <<>> ELSE <<s.ty>>)

\* The concatenation of the sequences F[i], ..., F[n].
RECURSIVE Concat(_, _, _)
Concat(F, i, n) == IF i > n THEN <<>> ELSE F[i] \o Concat(F, i + 1, n)

FunctionSlots(f) ==
    [i \in 1..Len(f.arguments) |-> f.arguments[i].argument_type]
    \o <<f.return_type>>
    \o Concat([i \in 1..Len(f.block) |-> StatementSlots(f.block[i])],
              1, Len(f.block))

\* Every resolved slot of the module, in the order type_check visits them.
ModuleSlots(m) ==
    [i \in 1..Len(m.primitives) |-> m.primitives[i].declaring_type]
    \o [i \in 1..Len(m.structs) |-> m.structs[i].declaring_type]
    \o Concat([i \in 1..Len(m.structs) |->
                  [j \in 1..Len(m.structs[i].struct_member) |->
                      m.structs[i].struct_member[j].struct_member_type]],
              1, Len(m.structs))
    \o [i \in 1..Len(m.constants) |-> m.constants[i].constant_type]
    \o Concat([i \in 1..Len(m.functions) |-> FunctionSlots(m.functions[i])],
              1, Len(m.functions))

-----------------------------------------------------------------------------
(* Claims *)

\* C1: when type_check has returned, with Ok or with an error, the symbol
\* table's scope depth equals its depth when type_check was called.
C1_ScopeBalance == pc = "done" => Len(symbol_table) = depth0

\* C6: the resolved slots that are set are a prefix of the slots in the
\* order primitives, structs, constants, functions: no slot of a later step
\* is written once a step has failed and the slots written before it are
\* kept; a check that returns Ok has set them all, and a check that has
\* returned an error writes nothing more.
C6_FailFast ==
    LET slots == ModuleSlots(module)
    IN  /\ \A i \in 1..(Len(slots) - 1) : slots[i] = None => slots[i + 1] = None
        /\ pc = "done" /\ result = Ok => \A i \in 1..Len(slots) : slots[i] # None
        /\ Failed => pc = "done"

\* C6 witness: a constant's type name does not resolve, so the check stops
\* with the structs annotated and the function after it untouched.
C6_Witness ==
    /\ pc = "done" /\ result.kind = "TypeNotFound"
    /\ Len(module.structs) > 0 /\ Len(module.constants) > 0
    /\ Len(module.functions) > 0
    /\ module.structs[1].declaring_type # None
    /\ module.constants[1].constant_type = None
    /\ module.functions[1].return_type = None

\* The type a name denotes once the structs are declared: the struct of
\* that name in the module, else the primitive registered under it.
Denotes(m, tab, n) ==
    IF n \in StructNames(m)
    THEN LET i == CHOOSE i \in 1..Len(m.structs) : m.structs[i].struct_name = n
         IN  m.structs[i].declaring_type
    ELSE tab[1].types[n]

\* A type name that is neither a registered primitive nor a struct of the
\* module: it has no binding in any visible scope.
Unbound(m, tab, n) == n \notin GlobalTypes(tab) \cup StructNames(m)

MemberTypeName(m, ij) ==
    m.structs[ij[1]].struct_member[ij[2]].struct_member_type_name

MemberType(m, ij) == m.structs[ij[1]].struct_member[ij[2]].struct_member_type

StructsAnnotated(m) ==
    /\ \A i \in 1..Len(m.structs) : m.structs[i].declaring_type # None
    /\ \A ij \in Members(m) : MemberType(m, ij) # None

C2_Pre ==
    /\ \A i, j \in 1..Len(module.structs) :
          i # j => module.structs[i].struct_name # module.structs[j].struct_name
    /\ \A ij \in Members(module) :
          ~Unbound(module, symbol_table, MemberTypeName(module, ij))

C2_Post(m, tab) ==
    /\ \A i \in 1..Len(m.structs) :
          /\ m.structs[i].declaring_type # None
          /\ \A n \in GlobalTypes(tab) :
                m.structs[i].declaring_type # tab[1].types[n]
          /\ \A j \in 1..Len(m.structs) :
                i # j => m.structs[i].declaring_type # m.structs[j].declaring_type
    /\ \A ij \in Members(m) :
          MemberType(m, ij) = Denotes(m, tab, MemberTypeName(m, ij))

\* C2: when the structs of a module have pairwise distinct names and every
\* member names a registered primitive or a struct of the module, declared
\* before or after it, check_structs succeeds, every struct gets a
\* TypeReference of its own and every member resolves to the type its name
\* denotes.
C2_ForwardReferences ==
    [][pc = "structs" /\ C2_Pre =>
          pc' = "casts" /\ C2_Post(module', symbol_table')]_vars

\* C2 witness: two structs that name each other have been checked.
C2_Witness ==
    /\ pc = "casts" /\ Len(module.structs) = 2
    /\ <<1, 1>> \in Members(module) /\ <<2, 1>> \in Members(module)
    /\ MemberTypeName(module, <<1, 1>>) = module.structs[2].struct_name
    /\ MemberTypeName(module, <<2, 1>>) = module.structs[1].struct_name
    /\ MemberType(module, <<1, 1>>) = module.structs[2].declaring_type
    /\ MemberType(module, <<2, 1>>) = module.structs[1].declaring_type
    /\ module.structs[1].declaring_type # module.structs[2].declaring_type

\* The uses of a type name by a struct member, a constant or a cast
\* endpoint, each with the resolved slot it has (casts have none: None).
TypeNameUses(m) ==
    {<<MemberTypeName(m, ij), MemberType(m, ij)>> : ij \in Members(m)}
    \cup {<<m.constants[i].constant_type_name, m.constants[i].constant_type>> :
            i \in 1..Len(m.constants)}
    \cup {<<m.casts[i].source_type, None>> : i \in 1..Len(m.casts)}
    \cup {<<m.casts[i].target_type, None>> : i \in 1..Len(m.casts)}

\* C3 as claimed: whenever a struct member, a constant or a cast endpoint
\* names an unbound type, type_check returns TypeNotFound with that name and
\* the slot is unset.
C3_Original ==
    pc = "done" =>
        \A u \in TypeNameUses(module) :
            Unbound(module, symbol_table, u[1]) =>
                result = Err("TypeNotFound", u[1], "") /\ u[2] = None

\* The member ij of the structs is reached: every struct is declared and
\* every member before ij is resolved.
MemberReached(m, ij) ==
    /\ \A i \in 1..Len(m.structs) : m.structs[i].declaring_type # None
    /\ \A kl \in Members(m) :
          (kl[1] < ij[1] \/ (kl[1] = ij[1] /\ kl[2] < ij[2]))
              => MemberType(m, kl) # None

C3_StructCase ==
    pc = "structs" =>
        \A ij \in Members(module) :
            /\ Unbound(module, symbol_table, MemberTypeName(module, ij))
            /\ MemberReached(module', ij)
            => /\ result' = Err("TypeNotFound", MemberTypeName(module, ij), "")
               /\ MemberType(module', ij) = None

C3_CastCase ==
    pc = "casts" /\ module.is_core =>
        \A i \in 1..Len(module.casts) :
            LET c == module.casts[i]
                n == IF Unbound(module, symbol_table, c.source_type)
                     THEN c.source_type ELSE c.target_type
            IN  /\ Unbound(module, symbol_table, n)
                /\ Cardinality(Edges(type_environment')) =
                      Cardinality(Edges(type_environment)) + i - 1
                => result' = Err("TypeNotFound", n, "")

C3_ConstantCase ==
    pc = "constants" =>
        \A i \in 1..Len(module.constants) :
            LET c == module.constants[i]
            IN  /\ Unbound(module, symbol_table, c.constant_type_name)
                /\ \A k \in 1..(i - 1) :
                      /\ module'.constants[k].constant_type # None
                      /\ module.constants[k].constant_name # c.constant_name
                /\ c.constant_name \notin StructNames(module)
                => /\ result' = Err("TypeNotFound", c.constant_type_name, "")
                   /\ module'.constants[i].constant_type = None

\* C3 amended: a module in which a struct member, a constant or a cast
\* endpoint names an unbound type fails, and the slot of that member or
\* constant is unset when it returns; the error is TypeNotFound with that
\* name when the check reaches that lookup: every declaration before it was
\* checked without an error, a cast's module is the core module, and a
\* constant's own name is not yet declared.
C3_Amended ==
    [][/\ pc' = "done" =>
            \A u \in TypeNameUses(module') :
                Unbound(module', symbol_table', u[1]) =>
                    result' # Ok /\ u[2] = None
       /\ C3_StructCase
       /\ C3_CastCase
       /\ C3_ConstantCase]_vars

\* C3 witness: the second constant names a type that is not declared.
C3_Witness ==
    /\ pc = "done" /\ Len(module.constants) = 2
    /\ Unbound(module, symbol_table, module.constants[2].constant_type_name)
    /\ result = Err("TypeNotFound", module.constants[2].constant_type_name, "")
    /\ module.constants[1].constant_type # None
    /\ module.constants[2].constant_type = None

CastPair(m, k) == <<m.casts[k].source_type, m.casts[k].target_type>>

\* Both endpoints of cast k name a type.
CastResolves(m, tab, k) ==
    /\ ~Unbound(m, tab, m.casts[k].source_type)
    /\ ~Unbound(m, tab, m.casts[k].target_type)

\* Cast k declares an ordered pair that an earlier cast has declared.
CastRepeats(m, k) == \E i \in 1..(k - 1) : CastPair(m, i) = CastPair(m, k)

CastEdge(m, tab, k) ==
    <<Denotes(m, tab, m.casts[k].source_type),
      Denotes(m, tab, m.casts[k].target_type), m.casts[k].cast_type>>

\* C4: in a core module no type has both an implicit and an explicit cast to
\* the same target; the first cast that declares an ordered pair again,
\* whatever the two kinds, fails with CastAlreadyDeclared(source, target) and
\* leaves exactly the edges of the casts before it; casts that resolve and
\* declare pairwise different ordered pairs, a pair and its reverse among
\* them, all succeed and each is recorded as its own edge.
C4_CastUniqueness ==
    [][pc = "casts" /\ module.is_core =>
          LET m == module
              tab == symbol_table
              Good(k) == CastResolves(m, tab, k) /\ ~CastRepeats(m, k)
              EdgesBefore(j) ==
                  Edges(type_environment)
                  \cup {CastEdge(m, tab, k) : k \in 1..(j - 1)}
          IN  /\ \A e \in Edges(type_environment') :
                    <<e[1], e[2], IF e[3] = "Implicit" THEN "Explicit"
                                  ELSE "Implicit">>
                        \notin Edges(type_environment')
              /\ \A j \in 1..Len(m.casts) :
                    /\ \A k \in 1..(j - 1) : Good(k)
                    /\ CastResolves(m, tab, j) /\ CastRepeats(m, j)
                    => /\ result' = Err("CastAlreadyDeclared",
                                        m.casts[j].source_type,
                                        m.casts[j].target_type)
                       /\ Edges(type_environment') = EdgesBefore(j)
              /\ (\A k \in 1..Len(m.casts) : Good(k))
                    => /\ pc' = "constants"
                       /\ Edges(type_environment') = EdgesBefore(Len(m.casts) + 1)
                       /\ Cardinality(Edges(type_environment')) =
                             Cardinality(Edges(type_environment)) + Len(m.casts)
       ]_vars

\* C4 witness: f32 to A and its reverse are both recorded, and a second cast
\* from f32 to A, of the other kind, is refused.
C4_Witness ==
    /\ pc = "done" /\ module.is_core /\ Len(module.casts) = 3
    /\ result = Err("CastAlreadyDeclared", "f32", "A")
    /\ module.casts[1] = CastDeclaration("Implicit", "f32", "A")
    /\ module.casts[2] = CastDeclaration("Explicit", "A", "f32")
    /\ module.casts[3] = CastDeclaration("Explicit", "f32", "A")
    /\ Cardinality(Edges(type_environment)) = 2

Gated(m) == ~m.is_core /\ (Len(m.primitives) > 0 \/ Len(m.casts) > 0)

\* Nothing was done for the primitives and casts of the module: no primitive
\* has a type, no type was created when the module declares a primitive, and
\* there is no cast edge.
NothingGatedDone ==
    /\ \A i \in 1..Len(module.primitives) :
          module.primitives[i].declaring_type = None
    /\ Len(module.primitives) > 0 =>
          Len(type_environment) = Cardinality(GlobalTypes(symbol_table))
    /\ Edges(type_environment) = {}

\* C5 as claimed: a non-core module with a primitive or a cast declaration
\* fails with SyntaxOnlyValidInCoreModule.
C5_Original ==
    pc = "done" /\ Gated(module) =>
        /\ result = Err("SyntaxOnlyValidInCoreModule", "", "")
        /\ NothingGatedDone

\* C5 amended: a non-core module with a primitive or a cast declaration
\* fails, and no primitive type and no cast edge is created for it; the
\* error is SyntaxOnlyValidInCoreModule when the module declares a primitive
\* or when its structs were all checked without an error, so that the
\* casts' gate is reached, whether or not the names the casts use exist.
C5_Amended ==
    pc = "done" /\ Gated(module) =>
        /\ Failed
        /\ NothingGatedDone
        /\ (Len(module.primitives) > 0 \/ StructsAnnotated(module))
              => result = Err("SyntaxOnlyValidInCoreModule", "", "")

\* C5 witness: a non-core module without primitives, its struct checked,
\* is refused for a cast whose source is not declared.
C5_Witness ==
    /\ pc = "done" /\ Gated(module)
    /\ Len(module.primitives) = 0 /\ Len(module.structs) > 0
    /\ StructsAnnotated(module)
    /\ Unbound(module, symbol_table, module.casts[1].target_type)
    /\ result = Err("SyntaxOnlyValidInCoreModule", "", "")

FunctionNames(m, k) == {m.functions[j].function_name : j \in 1..k}

ArgumentNames(f) == {f.arguments[i].argument_name : i \in 1..Len(f.arguments)}

\* The locals of a block declared before statement k.
LocalNames(f, k) ==
    {f.block[i].symbol_name :
        i \in {i \in 1..(k - 1) : i <= Len(f.block) /\ f.block[i].kind = "Local"}}

\* The names with a value symbol in the module's scope once the functions
\* 1..k are declared: the structs, the constants and those functions.
ModuleValueNames(m, k) ==
    StructNames(m) \cup ConstantNames(m) \cup FunctionNames(m, k)

\* The scopes that bind the value name n.
BindingScopes(n) ==
    {k \in 1..Len(symbol_table) : symbol_table[k].symbols[n] # Absent}

\* The variable a statement's expression looks up first, if it starts with
\* one: the expression itself, or the left operand of an infix expression.
LeadingVariable(e) ==
    IF e.kind = "Infix" THEN e.sub[1] ELSE e

\* Two declarations put the same name into the same namespace of the same
\* scope: two primitives (or one already registered), two structs, two of
\* the constants and functions, two arguments of a function, or two locals
\* of a block.
SameNamespaceClash ==
    LET m == module
        values == [i \in 1..(Len(m.constants) + Len(m.functions)) |->
                      IF i <= Len(m.constants)
                      THEN m.constants[i].constant_name
                      ELSE m.functions[i - Len(m.constants)].function_name]
    IN  \/ \E i, j \in 1..Len(m.primitives) :
              i # j /\ m.primitives[i].type_name = m.primitives[j].type_name
        \/ \E i \in 1..Len(m.primitives) :
              /\ m.primitives[i].declaring_type = None
              /\ m.primitives[i].type_name \in GlobalTypes(symbol_table)
        \/ \E i, j \in 1..Len(m.structs) :
              i # j /\ m.structs[i].struct_name = m.structs[j].struct_name
        \/ \E i, j \in 1..Len(values) : i # j /\ values[i] = values[j]
        \/ \E k \in 1..Len(m.functions) :
              \/ \E i, j \in 1..Len(m.functions[k].arguments) :
                    /\ i # j
                    /\ m.functions[k].arguments[i].argument_name =
                          m.functions[k].arguments[j].argument_name
              \/ \E i, j \in 1..Len(m.functions[k].block) :
                    /\ i # j
                    /\ m.functions[k].block[i].kind = "Local"
                    /\ m.functions[k].block[j].kind = "Local"
                    /\ m.functions[k].block[i].symbol_name =
                          m.functions[k].block[j].symbol_name

\* C7: type names and value names do not collide: type_check fails with a
\* redeclaration error only when two declarations put the same name into the
\* same namespace of the same scope, so not for a struct and a function, or
\* a struct and a constant, of the same name.
C7_SeparateNamespaces ==
    pc = "done"
    /\ result.kind \in {"SymbolAlreadyDeclared", "TypeAlreadyDeclared"}
    => SameNamespaceClash

\* Inside the block of function fi: its arguments are resolved and bound in
\* the function's scope, the scope above the module's.
C8_ArgumentsBound ==
    pc = "block" =>
        LET f == module.functions[fi]
        IN  /\ Len(symbol_table) = depth0 + 3
            /\ \A i \in 1..Len(f.arguments) :
                  LET a == f.arguments[i]
                  IN  /\ a.argument_type # None
                      /\ a.argument_type =
                            Denotes(module, symbol_table, a.argument_type_name)
                      /\ symbol_table[depth0 + 2].symbols[a.argument_name]
                            = a.argument_type
                      /\ a.argument_name \notin ModuleValueNames(module, fi)
                            => symbol_table[depth0 + 1].symbols[a.argument_name]
                                  = Absent

\* Between two functions and after the last: no scope binds an argument or
\* a local of a function already checked, unless the module binds that name.
C8_ArgumentsGone ==
    pc = "functions" \/ (pc = "done" /\ result = Ok) =>
        /\ pc = "functions" => Len(symbol_table) = depth0 + 1
        /\ \A j \in 1..(fi - 1) :
              LET f == module.functions[j]
              IN  \A n \in ArgumentNames(f) \cup LocalNames(f, Len(f.block) + 1) :
                      n \notin ModuleValueNames(module, fi - 1)
                          => BindingScopes(n) = {}

\* A variable that names an argument of an earlier function, and nothing
\* visible here, is not found.
C8_EarlierArgument ==
    pc = "block" /\ si <= Len(module.functions[fi].block) =>
        LET f == module.functions[fi]
            v == LeadingVariable(f.block[si].expression)
        IN  /\ v.kind = "Variable"
            /\ \E j \in 1..(fi - 1) : v.name \in ArgumentNames(module.functions[j])
            /\ v.name \notin ArgumentNames(f) \cup LocalNames(f, si)
                                \cup ModuleValueNames(module, fi)
            => result' = Err("VariableNotFound", v.name, "")

\* C8: an argument is bound, with the type its type name resolves to, in a
\* scope that is there only while its function is checked; once the function
\* is checked its arguments and locals are bound nowhere, so a later function
\* may use the same argument names, and a variable of a later function that
\* names an earlier function's argument is not found.
C8_ArgumentScoping ==
    [][C8_ArgumentsBound' /\ C8_ArgumentsGone' /\ C8_EarlierArgument]_vars

\* C8 witness: g(y: A) refers to x, the argument of f before it.
C8_Witness ==
    /\ pc = "done" /\ fi = 2
    /\ result = Err("VariableNotFound", "x", "")
    /\ "x" \in ArgumentNames(module.functions[1])
    /\ "x" \notin ArgumentNames(module.functions[2])
    /\ module.functions[1].arguments[1].argument_type # None
    /\ module.functions[2].arguments[1].argument_type # None

\* C9: a statement that starts with a variable reference: the variable gets
\* the type of the innermost scope that binds its name; with no such scope
\* the check fails with VariableNotFound, with an unresolved innermost
\* binding (a struct's value symbol, unless an argument or a local hides
\* it) with CannotInfer, and in both cases variable_type stays unset.
C9_VariableReferences ==
    [][pc = "block" /\ si <= Len(module.functions[fi].block)
       /\ LeadingVariable(module.functions[fi].block[si].expression).kind
             = "Variable" =>
          LET f == module.functions[fi]
              s == f.block[si]
              s1 == module'.functions[fi].block[si]
              v == LeadingVariable(s.expression)
              v1 == LeadingVariable(s1.expression)
              S == BindingScopes(v.name)
              t == symbol_table[CHOOSE k \in S : \A j \in S : j <= k]
                       .symbols[v.name]
          IN  /\ S = {} =>
                    result' = Err("VariableNotFound", v.name, "") /\ v1.ty = None
              /\ S # {} /\ t = None =>
                    result' = Err("CannotInfer", v.name, "") /\ v1.ty = None
              /\ S # {} /\ t # None =>
                    /\ v1.ty = t
                    /\ s.expression.kind = "Variable" =>
                          /\ s.kind # "Expression" => s1.ty = t
                          /\ s.kind # "Local" => result' = Running
              /\ v.name \in StructNames(module)
                 /\ v.name \notin ArgumentNames(f) \cup LocalNames(f, si)
                    => result' = Err("CannotInfer", v.name, "")
      ]_vars

\* C9 witness: a function returns A, the value symbol of a struct.
C9_Witness ==
    /\ pc = "done" /\ "A" \in StructNames(module)
    /\ result = Err("CannotInfer", "A", "")
    /\ module.functions[fi].block[1].expression.ty = None

\* The functions 1..k are bound in the module's scope, each to a type of
\* its own named after it, and visible with a resolved type; a later
\* function is bound nowhere unless the module binds its name otherwise.
C10_Declared(k) ==
    /\ \A j \in 1..k :
          LET n == module.functions[j].function_name
              t == symbol_table[depth0 + 1].symbols[n]
              S == BindingScopes(n)
          IN  /\ t >= 0 /\ t < Len(type_environment)
              /\ type_environment[t + 1].name = n
              /\ \A i \in 1..k :
                    i # j => symbol_table[depth0 + 1]
                                .symbols[module.functions[i].function_name] # t
              /\ S # {}
              /\ symbol_table[CHOOSE i \in S : \A h \in S : h <= i].symbols[n]
                    >= 0
    /\ \A j \in (k + 1)..Len(module.functions) :
          LET n == module.functions[j].function_name
          IN  n \notin ModuleValueNames(module, k) => BindingScopes(n) = {}

C10_Bound ==
    /\ pc = "block" => C10_Declared(fi)
    /\ pc = "functions" => C10_Declared(fi - 1)

\* A variable that names a later function, and nothing visible here, is not
\* found; one that names this function or an earlier one, and no argument or
\* local, gets that function's type.
C10_References ==
    pc = "block" /\ si <= Len(module.functions[fi].block) =>
        LET f == module.functions[fi]
            v == LeadingVariable(f.block[si].expression)
            v1 == LeadingVariable(module'.functions[fi].block[si].expression)
            hidden == v.name \in ArgumentNames(f) \cup LocalNames(f, si)
        IN  v.kind = "Variable" /\ ~hidden =>
                /\ v.name \in FunctionNames(module, fi) =>
                      v1.ty = symbol_table[depth0 + 1].symbols[v.name]
                /\ v.name \in FunctionNames(module, Len(module.functions))
                   /\ v.name \notin ModuleValueNames(module, fi)
                      => result' = Err("VariableNotFound", v.name, "")

\* C10: functions are bound in declaration order: while function i is
\* checked, it and the functions before it are visible with a resolved type,
\* a reference to a later function fails with VariableNotFound, and the
\* function's symbol, bound in the module's scope, is still there when the
\* function's scope has been left.
C10_DeclarationOrder == [][C10_Bound' /\ C10_References]_vars

\* C10 witness: f, the first function, refers to g, the second.
C10_Witness ==
    /\ pc = "done" /\ fi = 1 /\ Len(module.functions) = 2
    /\ module.functions[1].function_name = "f"
    /\ module.functions[2].function_name = "g"
    /\ result = Err("VariableNotFound", "g", "")

=============================================================================
